---- MODULE Spec2Model ----
(***************************************************************************)
(* A model of the cache manager of obsidian-omnisearch                     *)
(* (src/src/cache-manager.ts): the bounded search history, the persisted   *)
(* minisearch snapshot and the live document cache.  Every async method is *)
(* cut at its awaits: one action per stretch of code that runs without     *)
(* suspension, so that calls interleave exactly where the code can.        *)
(***************************************************************************)
EXTENDS Integers, Sequences, FiniteSets, Bags, TLC

\* ------------------------------------------------------------------ bounds

\* Call slots of addToSearchHistory that may be in flight at once.
NumSlots == 2
\* addToSearchHistory calls made in one behaviour.
MaxCalls == 3
\* writeMinisearchCache calls that may be in flight at once.
NumWriters == 2
\* writeMinisearchCache calls made in one behaviour.
MaxSaves == 3
\* The latest reading of the clock (new Date()) in one behaviour.
MaxDate == 2
\* addToLiveCache and getDocument calls made in one behaviour.
MaxLiveCalls == 2
\* Changes made to the files of the vault in one behaviour.
MaxVaultChanges == 2
\* The length of the content of the file one extraction reads.
MaxContent == 6
\* Events the vault emits in one behaviour.
MaxEvents == 3

\* ------------------------------------------------------- program constants

\* history.slice(0, 10)
HistoryCap == 10

\* ------------------------------------------------------------------ inputs

\* Queries recorded before the behaviour starts, oldest first: the persisted
\* table survives restarts, so the program starts on any prefix of these.
OldQueries == <<"a", "b", "c", "d", "e", "f", "g", "h", "i", "j">>

\* Queries the calls of a behaviour are made with: the empty query, the oldest,
\* a middle and the newest stored query, and two queries never stored.
Queries == {"", "a", "e", "j", "k", "l"}

Slots == 1..NumSlots

Writers == 1..NumWriters

\* The paths of the vault: two notes, a canvas, a file of no indexed format.
Paths == {"a.md", "n.md", "b.canvas", "c.bin"}

\* The files the vault holds when the plugin is loaded: a note and a canvas.
LivePaths == <<"a.md", "b.canvas">>

\* The paths the vault emits events for: a note that is indexed when the
\* listeners are registered, a path for a second note, a path of no indexed
\* format.
SyncPaths == {"a.md", "n.md", "c.bin"}

\* The paths a folder is renamed to.
FolderPaths == {"d", "d.md"}

\* The paths one extraction is called with: also a PDF and an image.
ExtractPaths == {"a.md", "b.canvas", "c.bin", "p.pdf", "i.png"}

\* The text-extractor plugin as getTextExtractor() may find it: not installed,
\* or installed and accepting some of the PDF and image extensions.
Extractors ==
    {[kind |-> "undefined"]} \cup {[accepts |-> S] : S \in SUBSET {"pdf", "png"}}

VARIABLES
    nextQueryIsEmpty,   \* CacheManager.nextQueryIsEmpty
    searchHistory,      \* database.searchHistory: rows in primary-key order
    nextId,             \* key generator of database.searchHistory
    addCalls,           \* the addToSearchHistory calls: pc, query, history
    getCall,            \* the getSearchHistory call: pc
    histResult,         \* what the last getSearchHistory call returned
    recorded,           \* ghost: the non-empty queries recorded, oldest first
    lastQuery,          \* ghost: the query of the latest call ("-": no call)
    callsMade,          \* ghost: addToSearchHistory calls made
    minisearch,         \* database.minisearch: rows in primary-key order
    now,                \* the clock read by new Date()
    writeCalls,         \* the writeMinisearchCache calls: pc, paths, index, row
    cacheCall,          \* the getMinisearchCache call: pc
    cacheResult,        \* what the last getMinisearchCache call returned, and
                        \* whether it showed the Notice
    lastSaved,          \* ghost: the arguments of the save that completed last,
                        \* until another save starts
    getAfter,           \* ghost: lastSaved when getMinisearchCache was called
    savesStarted,       \* ghost: writeMinisearchCache calls made
    savesCompleted,     \* ghost: writeMinisearchCache calls that resolved
    files,              \* the TFile objects ever made, in the order they were
                        \* made: path, stat.mtime, whether app.vault holds it
    extractor,          \* getTextExtractor(): undefined, or the plugin and
                        \* the extensions its canFileBeExtracted accepts
    documents,          \* CacheManager.documents, the live cache
    liveCalls,          \* the addToLiveCache and getDocument calls in flight,
                        \* a bag
    liveReturned,       \* the addToLiveCache or getDocument call that
                        \* returned last
    extractions,        \* ghost: calls of getAndMapIndexedDocument
    liveStarted,        \* ghost: addToLiveCache and getDocument calls made
    vaultChanges,       \* ghost: changes made to the files of the vault
    mapCall,            \* one getAndMapIndexedDocument call: where it is, its
                        \* path, what the file and the metadata cache hold,
                        \* the reader it awaits, what it returns
    searchIndex,        \* the Index Engine: the entries it holds, a bag
    emitted             \* ghost: the events the vault has emitted, in order

histVars == <<nextQueryIsEmpty, searchHistory, nextId, addCalls, getCall,
              histResult, recorded, lastQuery, callsMade>>

snapVars == <<minisearch, now, writeCalls, cacheCall, cacheResult, lastSaved,
              getAfter, savesStarted, savesCompleted>>

liveVars == <<files, extractor, documents, liveCalls, liveReturned, extractions, liveStarted,
              vaultChanges>>

extractVars == <<mapCall>>

syncVars == <<searchIndex, emitted>>

vars == <<histVars, snapVars, liveVars, extractVars, syncVars>>

\* What the actions of one part leave alone.
NotHist == <<snapVars, liveVars, extractVars, syncVars>>
NotSnap == <<histVars, liveVars, extractVars, syncVars>>
NotLive == <<histVars, snapVars, extractVars, syncVars>>
NotExtract == <<histVars, snapVars, liveVars, syncVars>>
NotSync == <<histVars, snapVars, extractVars>>

\* ------------------------------------------------------- sequence helpers

Range(s) == {s[i] : i \in 1..Len(s)}

Reverse(s) == [i \in 1..Len(s) |-> s[Len(s) + 1 - i]]

Slice(s, n) == IF Len(s) <= n THEN s ELSE SubSeq(s, 1, n)

RECURSIVE FilterOut(_, _)
\* history.filter(s => s.query !== query)
FilterOut(s, query) ==
    IF s = <<>> THEN <<>>
    ELSE IF Head(s).query = query THEN FilterOut(Tail(s), query)
    ELSE <<Head(s)>> \o FilterOut(Tail(s), query)

QueriesOf(rows) == [i \in 1..Len(rows) |-> rows[i].query]

\* ------------------------------------------- database.searchHistory table

\* A row without a key yet ({ query }): the key generator gives it one.
NoId == 0

HasKey(table, id) == \E i \in 1..Len(table) : table[i].id = id

RECURSIVE InsertByKey(_, _)
InsertByKey(table, row) ==
    IF table = <<>> THEN <<row>>
    ELSE IF row.id < Head(table).id THEN <<row>> \o table
    ELSE <<Head(table)>> \o InsertByKey(Tail(table), row)

RECURSIVE BulkAdd(_, _, _, _)
\* table.bulkAdd(items) outside a transaction: the rows are added one by one, a
\* row without a key takes the next generated key, a row whose key is already
\* stored is refused, the others stay stored, and the call rejects if any row
\* was refused.
BulkAdd(table, gen, items, failed) ==
    IF items = <<>> THEN [table |-> table, gen |-> gen, failed |-> failed]
    ELSE LET row == Head(items) IN
         IF row.id = NoId
         THEN BulkAdd(table \o <<[id |-> gen, query |-> row.query]>>,
                      gen + 1, Tail(items), failed)
         ELSE IF HasKey(table, row.id)
         THEN BulkAdd(table, gen, Tail(items), TRUE)
         ELSE BulkAdd(InsertByKey(table, row), gen, Tail(items), failed)

\* table.toArray(): the rows in primary-key order.
ToArray(table) == table

\* table.clear()
Clear(table) == <<>>

\* -------------------------------------------------- addToSearchHistory

IsEmptyQuery(query) == query = ""

\* A flag that an empty query sets and nothing clears.
FlagAfterRecordSticky(flag, query) == IF IsEmptyQuery(query) THEN TRUE ELSE flag

\* this.nextQueryIsEmpty after a call with query (lines 160-164).
FlagAfterRecord(flag, query) == IsEmptyQuery(query)

\* The list written back, not cut to the cap.
NewHistoryNoSlice(history, query) ==
    <<[id |-> NoId, query |-> query]>> \o Reverse(FilterOut(history, query))

\* The list written back, the rows read kept oldest first.
NewHistoryNoReverse(history, query) ==
    Slice(<<[id |-> NoId, query |-> query]>> \o FilterOut(history, query),
          HistoryCap)

\* The list written back (lines 166-168).
NewHistory(history, query) ==
    Slice(<<[id |-> NoId, query |-> query]>> \o Reverse(FilterOut(history, query)),
          HistoryCap)

IdleCall == [pc |-> "idle", query |-> "", history |-> <<>>]

RejectedCall == [pc |-> "rejected", query |-> "", history |-> <<>>]

\* The slot of a call is free once the call has resolved ("idle") or rejected.
NoAddInFlight == \A c \in Slots : addCalls[c].pc \in {"idle", "rejected"}

\* The call up to its first await: the flag, and the read of the table issued.
AddToSearchHistory(c, query) ==
    /\ addCalls[c].pc \in {"idle", "rejected"}
    /\ callsMade < MaxCalls
    /\ callsMade' = callsMade + 1
    /\ lastQuery' = query
    /\ nextQueryIsEmpty' = FlagAfterRecord(nextQueryIsEmpty, query)
    /\ IF IsEmptyQuery(query)
       THEN /\ UNCHANGED <<addCalls, recorded>>
       ELSE /\ addCalls' = [addCalls EXCEPT ![c] =
                               [pc |-> "toArray", query |-> query, history |-> <<>>]]
            /\ recorded' = Append(recorded, query)
    /\ UNCHANGED <<searchHistory, nextId, getCall, histResult>>

\* await toArray() resolves; the new list is computed; clear() is issued.
AddResumeToArray(c) ==
    /\ addCalls[c].pc = "toArray"
    /\ addCalls' = [addCalls EXCEPT ![c].pc = "clear",
                                    ![c].history =
                                        NewHistory(ToArray(searchHistory), addCalls[c].query)]
    /\ UNCHANGED <<nextQueryIsEmpty, searchHistory, nextId, getCall, histResult,
                   recorded, lastQuery, callsMade>>

\* clear() takes effect and resolves; bulkAdd(history) is issued.
AddResumeClear(c) ==
    /\ addCalls[c].pc = "clear"
    /\ searchHistory' = Clear(searchHistory)
    /\ addCalls' = [addCalls EXCEPT ![c].pc = "bulkAdd"]
    /\ UNCHANGED <<nextQueryIsEmpty, nextId, getCall, histResult,
                   recorded, lastQuery, callsMade>>

\* bulkAdd(history) takes effect; the call resolves, or rejects on a refused row.
AddResumeBulkAdd(c) ==
    /\ addCalls[c].pc = "bulkAdd"
    /\ LET r == BulkAdd(searchHistory, nextId, addCalls[c].history, FALSE) IN
        /\ searchHistory' = r.table
        /\ nextId' = r.gen
        /\ addCalls' = [addCalls EXCEPT ![c] =
                            IF r.failed THEN RejectedCall ELSE IdleCall]
    /\ UNCHANGED <<nextQueryIsEmpty, getCall, histResult,
                   recorded, lastQuery, callsMade>>

\* ---------------------------------------------------- getSearchHistory

\* The stored queries in table order, not reversed.
SearchHistoryDataNoReverse(rows, flag) ==
    (IF flag THEN <<"">> ELSE <<>>) \o QueriesOf(rows)

\* (await toArray()).reverse().map(o => o.query), '' first if the flag is set
\* (lines 174-180).
SearchHistoryData(rows, flag) ==
    (IF flag THEN <<"">> ELSE <<>>) \o Reverse(QueriesOf(rows))

\* The call up to its await: the read of the table is issued.
GetSearchHistory ==
    /\ getCall \in {"idle", "done"}
    /\ getCall' = "toArray"
    /\ UNCHANGED <<nextQueryIsEmpty, searchHistory, nextId, addCalls, histResult,
                   recorded, lastQuery, callsMade>>

\* await toArray() resolves; the flag is read; the list is returned.
GetResumeToArray ==
    /\ getCall = "toArray"
    /\ getCall' = "done"
    /\ histResult' = SearchHistoryData(ToArray(searchHistory), nextQueryIsEmpty)
    /\ UNCHANGED <<nextQueryIsEmpty, searchHistory, nextId, addCalls,
                   recorded, lastQuery, callsMade>>


\* ------------------------------------------------ database.minisearch table

\* The values getMinisearchCache returns besides a stored row.
Undefined == [kind |-> "undefined"]
Null == [kind |-> "null"]

HasDate(table, date) == \E i \in 1..Len(table) : table[i].date = date

RECURSIVE InsertByDate(_, _)
InsertByDate(table, row) ==
    IF table = <<>> THEN <<row>>
    ELSE IF row.date < Head(table).date THEN <<row>> \o table
    ELSE <<Head(table)>> \o InsertByDate(Tail(table), row)

\* table.add(row): the row is stored under its date, the primary key; a row whose
\* date is already stored is refused and the call rejects.
TableAdd(table, row) ==
    IF HasDate(table, row.date)
    THEN [table |-> table, failed |-> TRUE]
    ELSE [table |-> InsertByDate(table, row), failed |-> FALSE]

\* ------------------------------------------------- writeMinisearchCache

\* The `indexed` maps the saves are called with: entries <<path, mtime>> in
\* insertion order.
Manifests ==
    { <<>>,
      << <<"a.md", 1>> >>,
      << <<"a.md", 2>>, <<"b.md", 1>> >>,
      << <<"b.md", 1>>, <<"a.md", 2>> >> }

\* The indexes the saves are called with: the ids of the documents they hold.
Indexes == { {}, {"a.md"}, {"a.md", "b.md"} }

\* Array.from(indexed).map(([k, v]) => ({ path: k, mtime: v })) (line 221)
PathsOf(indexed) ==
    [i \in 1..Len(indexed) |-> [path |-> indexed[i][1], mtime |-> indexed[i][2]]]

\* minisearch.toJSON(): the plain object of the index.
ToJSON(index) == [documentCount |-> Cardinality(index), documentIds |-> index]

NoRow == [date |-> 0, paths |-> <<>>, data |-> ToJSON({})]

IdleWrite == [pc |-> "idle", paths |-> <<>>, index |-> {}, row |-> NoRow]

NoSave == <<"none">>

NoWriteInFlight == \A w \in Writers : writeCalls[w].pc = "idle"

\* The call up to its first await: paths are taken from the map, clear() is
\* issued.
WriteMinisearchCache(w, index, indexed) ==
    /\ writeCalls[w].pc = "idle"
    /\ savesStarted < MaxSaves
    /\ savesStarted' = savesStarted + 1
    /\ writeCalls' = [writeCalls EXCEPT ![w] =
                         [pc |-> "clear", paths |-> PathsOf(indexed),
                          index |-> index, row |-> NoRow]]
    /\ lastSaved' = NoSave
    /\ UNCHANGED <<minisearch, now, cacheCall, cacheResult, getAfter, savesCompleted>>

\* clear() takes effect and resolves; the row is built with the date read from
\* the clock and the index serialized; add(row) is issued.
WriteResumeClear(w) ==
    /\ writeCalls[w].pc = "clear"
    /\ minisearch' = <<>>
    /\ \E d \in now..MaxDate :
        /\ d >= 1
        /\ now' = d
        /\ writeCalls' = [writeCalls EXCEPT ![w].pc = "add",
                                            ![w].row =
                                                [date |-> d,
                                                 paths |-> writeCalls[w].paths,
                                                 data |-> ToJSON(writeCalls[w].index)]]
    /\ UNCHANGED <<cacheCall, cacheResult, lastSaved, getAfter, savesStarted,
                   savesCompleted>>

\* add(row) takes effect; the call resolves, or rejects on a refused row.
WriteResumeAdd(w) ==
    /\ writeCalls[w].pc = "add"
    /\ LET r == TableAdd(minisearch, writeCalls[w].row) IN
        /\ minisearch' = r.table
        /\ IF r.failed
           THEN UNCHANGED <<lastSaved, savesCompleted>>
           ELSE /\ lastSaved' = <<writeCalls[w].paths, writeCalls[w].row.data>>
                /\ savesCompleted' = savesCompleted + 1
    /\ writeCalls' = [writeCalls EXCEPT ![w] = IdleWrite]
    /\ UNCHANGED <<now, cacheCall, cacheResult, getAfter, savesStarted>>

\* --------------------------------------------------- getMinisearchCache

\* (await database.minisearch.toArray())[0] (line 205)
FirstRow(table) == IF table = <<>> THEN Undefined ELSE table[1]

\* The call up to its await: the read of the table is issued.
GetMinisearchCache ==
    /\ cacheCall \in {"idle", "done"}
    /\ cacheCall' = "toArray"
    /\ getAfter' = IF NoWriteInFlight THEN lastSaved ELSE NoSave
    /\ UNCHANGED <<minisearch, now, writeCalls, cacheResult, lastSaved,
                   savesStarted, savesCompleted>>

\* await toArray() resolves: the first row is returned (lines 205-206).
GetCacheResolved ==
    /\ cacheCall = "toArray"
    /\ cacheCall' = "done"
    /\ cacheResult' = [value |-> FirstRow(minisearch), notice |-> FALSE,
                       raised |-> FALSE]
    /\ UNCHANGED <<minisearch, now, writeCalls, lastSaved, getAfter,
                   savesStarted, savesCompleted>>

\* await toArray() rejects: the Notice is shown and null returned (lines 207-213).
GetCacheRejected ==
    /\ cacheCall = "toArray"
    /\ cacheCall' = "done"
    /\ cacheResult' = [value |-> Null, notice |-> TRUE, raised |-> FALSE]
    /\ UNCHANGED <<minisearch, now, writeCalls, lastSaved, getAfter,
                   savesStarted, savesCompleted>>

SnapInit ==
    /\ minisearch = <<>>
    /\ now = 0
    /\ writeCalls = [w \in Writers |-> IdleWrite]
    /\ cacheCall = "idle"
    /\ cacheResult = [value |-> Undefined, notice |-> FALSE, raised |-> FALSE]
    /\ lastSaved = NoSave
    /\ getAfter = NoSave
    /\ savesStarted = 0
    /\ savesCompleted = 0


\* ---------------------------------------------------------------- app.vault

\* A file object of the vault.  The vault changes path and stat.mtime of the
\* object in place; an object whose file is deleted keeps what it held.
TFile(path, mtime) == [path |-> path, mtime |-> mtime, inVault |-> TRUE]

\* find() where no file of the vault has the path.
NoFile == 0

\* app.vault.getFiles().find(f => f.path === path) (line 32): the place of
\* the file object in files.
FindFile(vault, path) ==
    LET at == {i \in 1..Len(vault) : vault[i].inVault /\ vault[i].path = path}
    IN IF at = {} THEN NoFile ELSE CHOOSE i \in at : TRUE

\* ------------------------------------------------ getAndMapIndexedDocument

Extension(path) ==
    CASE path \in {"a.md", "n.md", "d.md"} -> "md"
      [] path = "b.canvas" -> "canvas"
      [] path = "p.pdf" -> "pdf"
      [] path = "i.png" -> "png"
      [] OTHER -> "bin"

IsFilePlaintext(path) == Extension(path) \in {"md", "txt"}
IsFileCanvas(path) == Extension(path) = "canvas"
IsFilePDF(path) == Extension(path) = "pdf"
IsFileImage(path) == Extension(path) \in {"png", "jpg", "jpeg"}

\* getTextExtractor() where the text-extractor plugin is not installed.
NoExtractor == [kind |-> "undefined"]

\* The text-extractor plugin, whose canFileBeExtracted accepts the extensions
\* of accepts.
TextExtractor(accepts) == [accepts |-> accepts]

\* extractor.canFileBeExtracted(path)
CanFileBeExtracted(ext, path) == Extension(path) \in ext.accepts

\* A dispatch that falls back to the built-in readers whenever the text
\* extractor does not take the file.
DispatchWithFallback(path, ext) ==
    IF IsFilePlaintext(path) THEN "cachedRead"
    ELSE IF IsFileCanvas(path) THEN "canvas"
    ELSE IF ext # NoExtractor /\ CanFileBeExtracted(ext, path) THEN "extractText"
    ELSE IF IsFilePDF(path) THEN "getPdfText"
    ELSE IF IsFileImage(path) THEN "getImageText"
    ELSE "throw"

\* The reader the format dispatch picks for path, "throw" where it throws
\* 'Invalid file format' (lines 40-80).
Dispatch(path, ext) ==
    IF IsFilePlaintext(path) THEN "cachedRead"
    ELSE IF IsFileCanvas(path) THEN "canvas"
    ELSE IF ext # NoExtractor
         THEN IF CanFileBeExtracted(ext, path) THEN "extractText" ELSE "throw"
    ELSE IF IsFilePDF(path) THEN "getPdfText"
    ELSE IF IsFileImage(path) THEN "getImageText"
    ELSE "throw"

\* The synchronous start of the extraction of path: "throw" where it throws
\* before any read (lines 32-33, 68, 78), the reader it awaits otherwise.
ExtractionStart(path, vault, ext) ==
    IF FindFile(vault, path) = NoFile THEN "throw" ELSE Dispatch(path, ext)

\* The IndexedDocument returned (lines 112-123): the content read, and the path
\* and the mtime the file object has when the document is built.
IndexedDocument(file, content) ==
    [path |-> file.path, mtime |-> file.mtime, content |-> content]

\* The characters of a file, all different: the character at offset i is i.
FileContent == [i \in 1..MaxContent |-> i - 1]

\* What app.metadataCache.getFileCache(file) returns for a file not yet parsed.
NoMetadata == [kind |-> "null"]

\* The sections of a file as the metadata cache lists them: in the order of the
\* file, none overlapping another, the first after the frontmatter at offset 0.
\* A section covers the offsets from start up to, not including, end.
Section(type, start, end) == [type |-> type, start |-> start, end |-> end]

SectionLists ==
    {<<>>}
    \cup {<<Section(t, a, b)>> :
             t \in {"comment", "paragraph"}, a \in 1..MaxContent, b \in 1..MaxContent}
    \cup {<<Section(t, a, b), Section(u, c, d)>> :
             t \in {"comment", "paragraph"}, u \in {"comment"},
             a \in 1..MaxContent, b \in 1..MaxContent,
             c \in 1..MaxContent, d \in 1..MaxContent}

InOrder(sections) ==
    /\ \A i \in 1..Len(sections) : sections[i].start < sections[i].end
    /\ \A i \in 1..Len(sections) - 1 : sections[i].end <= sections[i + 1].start

Metadatas ==
    {NoMetadata}
    \cup {[excalidraw |-> x, sections |-> l] :
             x \in BOOLEAN, l \in {m \in SectionLists : InOrder(m)}}

Min(a, b) == IF a < b THEN a ELSE b
Max(a, b) == IF a < b THEN b ELSE a

\* An index of String.prototype.substring: below 0 it counts as 0, beyond the
\* length as the length.
Clamp(str, i) == Max(0, Min(i, Len(str)))

\* str.substring(from, to): the characters from the smaller to the larger of
\* the two indexes.
Substring(str, from, to) ==
    SubSeq(str, Min(Clamp(str, from), Clamp(str, to)) + 1,
                Max(Clamp(str, from), Clamp(str, to)))

\* str.substring(from)
SubstringFrom(str, from) == Substring(str, from, Len(str))

RECURSIVE SelectComments(_)
\* metadata.sections?.filter(s => s.type === 'comment') (line 104)
SelectComments(sections) ==
    IF sections = <<>> THEN <<>>
    ELSE IF Head(sections).type = "comment"
         THEN <<Head(sections)>> \o SelectComments(Tail(sections))
         ELSE SelectComments(Tail(sections))

RECURSIVE RemoveComments(_, _)
\* The loop of lines 105-108: the comments are taken in the order of the list,
\* each cut out of the content the cuts before it left.
RemoveComments(content, comments) ==
    IF comments = <<>> THEN content
    ELSE RemoveComments(
            Substring(content, 0, Head(comments).start - 1)
                \o SubstringFrom(content, Head(comments).end),
            Tail(comments))

\* The content after lines 87-110.
AfterMetadata(content, metadata) ==
    IF metadata # NoMetadata /\ metadata.excalidraw
    THEN RemoveComments(content, SelectComments(metadata.sections))
    ELSE content

\* What a reader resolves to: a string, or null.
StringContent(text) == [kind |-> "string", text |-> text]
NullContent == [kind |-> "null"]

\* The content after lines 81-86: '' for a reader that resolved to null.  The
\* characters of FileContent have no diacritics to remove.
Normalized(content) == IF content = NullContent THEN <<>> ELSE content.text

IdleMapCall ==
    [pc |-> "idle", path |-> "", metadata |-> NoMetadata, reader |-> "",
     read |-> <<>>, content |-> <<>>]

\* getAndMapIndexedDocument(path) up to its first await (lines 32-80): it
\* throws, or awaits the reader the dispatch picks.
MapBegin ==
    /\ mapCall.pc = "start"
    /\ mapCall' = [mapCall EXCEPT
            !.reader = ExtractionStart(mapCall.path, files, extractor),
            !.pc = IF ExtractionStart(mapCall.path, files, extractor) = "throw"
                   THEN "threw" ELSE "reading"]
    /\ UNCHANGED NotExtract

\* The reader resolves, to the content of the file or to null, and the document
\* is built (lines 81-123).
MapReadResolved ==
    /\ mapCall.pc = "reading"
    /\ \E content \in {StringContent(FileContent), NullContent} :
          mapCall' = [mapCall EXCEPT
              !.pc = "done",
              !.read = Normalized(content),
              !.content = AfterMetadata(Normalized(content), mapCall.metadata)]
    /\ UNCHANGED NotExtract

\* The reader rejects, or JSON.parse throws on the canvas (line 47).
MapReadRejected ==
    /\ mapCall.pc = "reading"
    /\ mapCall' = [mapCall EXCEPT !.pc = "rejected"]
    /\ UNCHANGED NotExtract

\* No extraction is observed.
ExtractQuiet == mapCall = IdleMapCall

\* ----------------------------------------------------------- live cache

\* Map.get of a key the map does not hold.
NoDoc == [kind |-> "undefined"]

\* this.documents.has(path)
Has(docs, path) == docs[path] # NoDoc

\* A map that holds nothing but the new entry.
SetAlone(docs, path, doc) == [q \in Paths |-> IF q = path THEN doc ELSE NoDoc]

\* this.documents.set(path, doc) (line 141)
Set(docs, path, doc) == [docs EXCEPT ![path] = doc]

\* The entry of path is dropped when its extraction fails.
DeleteOnFailure(docs, path) == [docs EXCEPT ![path] = NoDoc]

\* this.documents after the catch of addToLiveCache (lines 142-144).
AfterFailure(docs, path) == docs

\* What a call that has returned leaves: the call, what it resolved to, whether
\* its extraction failed, whether it raised, whether it extracted.
Returned(op, path, result, failed, extracted) ==
    [op |-> op, path |-> path, result |-> result, failed |-> failed,
     raised |-> FALSE, extracted |-> extracted]

NoReturn == Returned("none", "", NoDoc, FALSE, FALSE)

\* A call in flight: the method, where it is suspended, its path, the file
\* object it found, the content its read was issued on, whether its extraction
\* has failed.
InFlight(op, pc, path, file, content, failed) ==
    [op |-> op, pc |-> pc, path |-> path, file |-> file, content |-> content,
     failed |-> failed]

Suspend(call) == liveCalls (+) SetToBag({call})
Resume(call) == liveCalls (-) SetToBag({call})

\* The call of getAndMapIndexedDocument at line 140, up to its first await.
BeginExtraction(op, path, vault) ==
    LET file == FindFile(vault, path) IN
    /\ extractions' = extractions + 1
    /\ liveCalls' = Suspend(
            IF ExtractionStart(path, vault, extractor) = "throw"
            THEN InFlight(op, "threw", path, file, 0, FALSE)
            ELSE InFlight(op, "read", path, file, vault[file].mtime, FALSE))

\* addToLiveCache(path), up to the await at line 140.
AddToLiveCache(path) ==
    /\ liveStarted < MaxLiveCalls
    /\ liveStarted' = liveStarted + 1
    /\ BeginExtraction("add", path, files)
    /\ UNCHANGED <<files, extractor, documents, liveReturned, vaultChanges>>

\* getDocument(path), up to its return on a hit (lines 152-154), up to the
\* await at line 155 on a miss.
GetDocument(path) ==
    /\ liveStarted < MaxLiveCalls
    /\ liveStarted' = liveStarted + 1
    /\ IF Has(documents, path)
       THEN /\ liveReturned' = Returned("get", path, documents[path], FALSE, FALSE)
            /\ UNCHANGED <<liveCalls, extractions>>
       ELSE /\ BeginExtraction("get", path, files)
            /\ UNCHANGED liveReturned
    /\ UNCHANGED <<files, extractor, documents, vaultChanges>>

\* addToLiveCache is over: it returns, or getDocument resumes after it.
AfterExtraction(call, failed) ==
    IF call.op # "add"
    THEN /\ liveCalls' = Resume(call) (+)
                SetToBag({InFlight(call.op, "return", call.path, call.file,
                                   call.content, failed)})
         /\ UNCHANGED liveReturned
    ELSE /\ liveCalls' = Resume(call)
         /\ liveReturned' = Returned("add", call.path, NoDoc, failed, TRUE)

\* The read resolves, the document is built and stored (lines 140-141).
ExtractResolved(call) ==
    /\ BagIn(call, liveCalls)
    /\ call.pc = "read"
    /\ documents' = Set(documents, call.path,
                        IndexedDocument(files[call.file], call.content))
    /\ AfterExtraction(call, FALSE)
    /\ UNCHANGED <<files, extractor, extractions, liveStarted, vaultChanges>>

\* The read rejects, or the canvas does not parse: the error is caught and
\* logged (lines 142-144).
ExtractRejected(call) ==
    /\ BagIn(call, liveCalls)
    /\ call.pc = "read"
    /\ documents' = AfterFailure(documents, call.path)
    /\ AfterExtraction(call, TRUE)
    /\ UNCHANGED <<files, extractor, extractions, liveStarted, vaultChanges>>

\* The extraction threw before any read (no such file, no reader for the
\* format): the error is caught and logged (lines 142-144).
ExtractThrew(call) ==
    /\ BagIn(call, liveCalls)
    /\ call.pc = "threw"
    /\ documents' = AfterFailure(documents, call.path)
    /\ AfterExtraction(call, TRUE)
    /\ UNCHANGED <<files, extractor, extractions, liveStarted, vaultChanges>>

\* getDocument resumes after addToLiveCache: return this.documents.get(path)
\* (line 156).
GetDocumentReturn(call) ==
    /\ BagIn(call, liveCalls)
    /\ call.op = "get"
    /\ call.pc = "return"
    /\ liveCalls' = Resume(call)
    /\ liveReturned' = Returned("get", call.path, documents[call.path],
                                call.failed, TRUE)
    /\ UNCHANGED <<files, extractor, documents, extractions, liveStarted,
                   vaultChanges>>

\* removeFromLiveCache(path) (lines 147-149)
RemoveFromLiveCache(path) ==
    /\ Has(documents, path)
    /\ documents' = [documents EXCEPT ![path] = NoDoc]
    /\ UNCHANGED <<files, extractor, liveCalls, liveReturned, extractions,
                   liveStarted, vaultChanges>>

\* The time of the next change of the vault: later than every stat.mtime.
Clock == vaultChanges + 2

\* The vault: a file is written (created or modified), a file is deleted.
VaultWrite(path) ==
    /\ vaultChanges < MaxVaultChanges
    /\ vaultChanges' = vaultChanges + 1
    /\ files' = IF FindFile(files, path) = NoFile
                THEN Append(files, TFile(path, Clock))
                ELSE [files EXCEPT ![FindFile(files, path)].mtime = Clock]
    /\ UNCHANGED <<extractor, documents, liveCalls, liveReturned, extractions,
                   liveStarted>>

VaultDelete(path) ==
    /\ vaultChanges < MaxVaultChanges
    /\ FindFile(files, path) # NoFile
    /\ vaultChanges' = vaultChanges + 1
    /\ files' = [files EXCEPT ![FindFile(files, path)].inVault = FALSE]
    /\ UNCHANGED <<extractor, documents, liveCalls, liveReturned, extractions,
                   liveStarted>>

LiveInit ==
    /\ files = [i \in 1..Len(LivePaths) |-> TFile(LivePaths[i], 1)]
    /\ extractor = NoExtractor
    /\ documents = [p \in Paths |-> NoDoc]
    /\ liveCalls = EmptyBag
    /\ liveReturned = NoReturn
    /\ extractions = 0
    /\ liveStarted = 0
    /\ vaultChanges = 0

\* The live cache of a run in which no document is asked for.
LiveQuiet == LiveInit

\* ----------------------------------------------------------- Index Engine

\* The entry of a document, kept under its path.
LiveEntry(doc) == [id |-> doc.path, ghost |-> FALSE]

\* The entry of a ghost document, kept under the name it stands for.
GhostEntry(name) == [id |-> name, ghost |-> TRUE]

\* The entries the engine holds under id.
Count(engine, entry) == IF BagIn(entry, engine) THEN CopiesIn(entry, engine) ELSE 0

\* removeById: no entry is left under the id.
RemoveEntry(engine, entry) ==
    IF BagIn(entry, engine)
    THEN engine (-) (entry :> CopiesIn(entry, engine))
    ELSE engine

\* add(doc): one more entry.
AddEntry(engine, entry) == engine (+) SetToBag({entry})

\* file.name, of a file at the root of the vault.
Name(path) == path

\* ------------------------------------------------------- Change Synchronizer

\* An event of the vault: rename comes with the old path and with the item
\* moved, a file or a folder.
Event(type, path, oldPath, isFile) ==
    [type |-> type, path |-> path, oldPath |-> oldPath, isFile |-> isFile]

Emit(type, path, oldPath, isFile) ==
    /\ Len(emitted) < MaxEvents
    /\ emitted' = Append(emitted, Event(type, path, oldPath, isFile))
    /\ vaultChanges' = vaultChanges + 1

\* removeFromIndex(path): the live document leaves the live cache and the
\* engine.
RemoveFromIndex(engine, path) == RemoveEntry(engine, [id |-> path, ghost |-> FALSE])

\* addNonExistingToIndex(name): a ghost document under the name, unless there
\* is one.
AddNonExistingToIndex(engine, name) ==
    IF BagIn(GhostEntry(name), engine) THEN engine
    ELSE AddEntry(engine, GhostEntry(name))

\* addToIndex inserts the document: the ghost of the same name goes, the
\* document is added.
InsertDocument(engine, doc) ==
    AddEntry(RemoveEntry(engine, GhostEntry(Name(doc.path))), LiveEntry(doc))

\* addToIndex(file) up to its first await: the extraction of file.path starts.
AddToIndex(op, path, vault) == BeginExtraction(op, path, vault)

\* The create listener (part_000 lines 36-38): addToIndex(file), not awaited.
OnCreate(path) ==
    /\ FindFile(files, path) = NoFile
    /\ Emit("create", path, path, TRUE)
    /\ files' = Append(files, TFile(path, Clock))
    /\ AddToIndex("create", path, files')
    /\ UNCHANGED <<extractor, documents, liveReturned, liveStarted, searchIndex>>

\* A delete listener that only adds the ghost document.
AfterDeleteGhostOnly(engine, path) ==
    AddNonExistingToIndex(engine, Name(path))

\* The Index Engine after the delete listener (part_000 lines 41-45):
\* removeFromIndex(file.path), then addNonExistingToIndex(file.name).
AfterDelete(engine, path) ==
    AddNonExistingToIndex(RemoveFromIndex(engine, path), Name(path))

OnDelete(path) ==
    /\ FindFile(files, path) # NoFile
    /\ Emit("delete", path, path, TRUE)
    /\ files' = [files EXCEPT ![FindFile(files, path)].inVault = FALSE]
    /\ documents' = [documents EXCEPT ![path] = NoDoc]
    /\ searchIndex' = AfterDelete(searchIndex, path)
    /\ UNCHANGED <<extractor, liveCalls, liveReturned, extractions, liveStarted>>

\* The modify listener up to its await (part_000 lines 48-50):
\* removeFromIndex(file.path), then addToIndex(file).
OnModify(path) ==
    /\ FindFile(files, path) # NoFile
    /\ Emit("modify", path, path, TRUE)
    /\ files' = [files EXCEPT ![FindFile(files, path)].mtime = Clock]
    /\ documents' = [documents EXCEPT ![path] = NoDoc]
    /\ searchIndex' = RemoveFromIndex(searchIndex, path)
    /\ AddToIndex("modify", path, files')
    /\ UNCHANGED <<extractor, liveReturned, liveStarted>>

\* A rename listener that acts on every file.
RenameAppliesToAnyFile(isFile, path) == isFile

\* file instanceof TFile && file.path.endsWith('.md') (part_000 line 55)
RenameApplies(isFile, path) == isFile /\ Extension(path) = "md"

\* The rename listener up to its await (part_000 lines 54-59), for a file:
\* the vault has set file.path to the new path.
OnRename(oldPath, path) ==
    /\ FindFile(files, oldPath) # NoFile
    /\ FindFile(files, path) = NoFile
    /\ Emit("rename", path, oldPath, TRUE)
    /\ files' = [files EXCEPT ![FindFile(files, oldPath)].path = path]
    /\ IF RenameApplies(TRUE, path)
       THEN /\ documents' = [documents EXCEPT ![oldPath] = NoDoc]
            /\ searchIndex' = RemoveFromIndex(searchIndex, oldPath)
            /\ AddToIndex("rename", path, files')
       ELSE UNCHANGED <<documents, searchIndex, liveCalls, extractions>>
    /\ UNCHANGED <<extractor, liveReturned, liveStarted>>

\* The rename listener for a folder.
OnRenameFolder(oldPath, path) ==
    /\ oldPath # path
    /\ Emit("rename", path, oldPath, FALSE)
    /\ IF RenameApplies(FALSE, path)
       THEN /\ documents' = [documents EXCEPT ![oldPath] = NoDoc]
            /\ searchIndex' = RemoveFromIndex(searchIndex, oldPath)
            /\ AddToIndex("rename", path, files)
       ELSE UNCHANGED <<documents, searchIndex, liveCalls, extractions>>
    /\ UNCHANGED <<files, extractor, liveReturned, liveStarted>>

\* addToIndex resumes after the extraction: the document the live cache holds
\* for the path is inserted; after a failed extraction there is none.
AddToIndexResume(call) ==
    /\ BagIn(call, liveCalls)
    /\ call.op \in {"create", "modify", "rename"}
    /\ call.pc = "return"
    /\ liveCalls' = Resume(call)
    /\ searchIndex' = IF Has(documents, call.path)
                THEN InsertDocument(searchIndex, documents[call.path])
                ELSE searchIndex
    /\ UNCHANGED <<files, extractor, documents, liveReturned, extractions,
                   liveStarted, vaultChanges, emitted>>

\* The listeners are registered on a vault that holds one note, indexed.
SyncInit ==
    /\ files = <<TFile("a.md", 1)>>
    /\ extractor = NoExtractor
    /\ documents = [p \in Paths |->
                        IF p = "a.md" THEN IndexedDocument(TFile("a.md", 1), 1)
                        ELSE NoDoc]
    /\ liveCalls = EmptyBag
    /\ liveReturned = NoReturn
    /\ extractions = 0
    /\ liveStarted = 0
    /\ vaultChanges = 0
    /\ searchIndex = SetToBag({LiveEntry(IndexedDocument(TFile("a.md", 1), 1))})
    /\ emitted = <<>>

\* No event is handled.
SyncQuiet == searchIndex = EmptyBag /\ emitted = <<>>

\* ------------------------------------------------------- specifications

Prefix(k) == [i \in 1..k |-> [id |-> i, query |-> OldQueries[i]]]

HistInitWith(k) ==
    /\ nextQueryIsEmpty = FALSE
    /\ searchHistory = Prefix(k)
    /\ nextId = k + 1
    /\ recorded = SubSeq(OldQueries, 1, k)
    /\ addCalls = [c \in Slots |-> IdleCall]
    /\ getCall = "idle"
    /\ histResult = <<>>
    /\ lastQuery = "-"
    /\ callsMade = 0

HistInit == \E k \in 0..Len(OldQueries) : HistInitWith(k)

\* The history empty, with one row, with one row to spare, full.
HistInitEdge ==
    \E k \in {0, 1, Len(OldQueries) - 1, Len(OldQueries)} : HistInitWith(k)

\* The history of a first run: nothing recorded yet.
HistFresh == HistInitWith(0)

\* The history with addToSearchHistory calls that never overlap: a call starts
\* when none is in flight, in the first slot.  getSearchHistory runs at any
\* time.
SeqAdd ==
    /\ \E q \in Queries : NoAddInFlight /\ AddToSearchHistory(1, q)
    /\ UNCHANGED NotHist
SeqAddToArray ==
    /\ \E c \in Slots : AddResumeToArray(c)
    /\ UNCHANGED NotHist
SeqAddClear ==
    /\ \E c \in Slots : AddResumeClear(c)
    /\ UNCHANGED NotHist
SeqAddBulkAdd ==
    /\ \E c \in Slots : AddResumeBulkAdd(c)
    /\ UNCHANGED NotHist
SeqGet == GetSearchHistory /\ UNCHANGED NotHist
SeqGetToArray == GetResumeToArray /\ UNCHANGED NotHist

HistSeqNext ==
    \/ SeqAdd
    \/ SeqAddToArray
    \/ SeqAddClear
    \/ SeqAddBulkAdd
    \/ SeqGet
    \/ SeqGetToArray

InitHistory == HistInit /\ SnapInit /\ LiveQuiet /\ ExtractQuiet /\ SyncQuiet

SpecHistory == InitHistory /\ [][HistSeqNext]_vars

\* The history with calls that overlap: every call starts at any time and the
\* calls interleave at their awaits.
AsyncAdd ==
    /\ \E c \in Slots, q \in Queries : AddToSearchHistory(c, q)
    /\ UNCHANGED NotHist
AsyncAddToArray ==
    /\ \E c \in Slots : AddResumeToArray(c)
    /\ UNCHANGED NotHist
AsyncAddClear ==
    /\ \E c \in Slots : AddResumeClear(c)
    /\ UNCHANGED NotHist
AsyncAddBulkAdd ==
    /\ \E c \in Slots : AddResumeBulkAdd(c)
    /\ UNCHANGED NotHist
AsyncGet == GetSearchHistory /\ UNCHANGED NotHist
AsyncGetToArray == GetResumeToArray /\ UNCHANGED NotHist

HistAsyncNext ==
    \/ AsyncAdd
    \/ AsyncAddToArray
    \/ AsyncAddClear
    \/ AsyncAddBulkAdd
    \/ AsyncGet
    \/ AsyncGetToArray

InitHistoryAsync == HistInitEdge /\ SnapInit /\ LiveQuiet /\ ExtractQuiet /\ SyncQuiet

SpecHistoryAsync == InitHistoryAsync /\ [][HistAsyncNext]_vars

\* The snapshot: saves and loads start at any time and interleave at their
\* awaits.
SnapWrite ==
    /\ \E w \in Writers, index \in Indexes, indexed \in Manifests :
          WriteMinisearchCache(w, index, indexed)
    /\ UNCHANGED NotSnap
SnapWriteClear == (\E w \in Writers : WriteResumeClear(w)) /\ UNCHANGED NotSnap
SnapWriteAdd == (\E w \in Writers : WriteResumeAdd(w)) /\ UNCHANGED NotSnap
SnapGet == GetMinisearchCache /\ UNCHANGED NotSnap
SnapGetResolved == GetCacheResolved /\ UNCHANGED NotSnap
SnapGetRejected == GetCacheRejected /\ UNCHANGED NotSnap

SnapNext ==
    \/ SnapWrite
    \/ SnapWriteClear
    \/ SnapWriteAdd
    \/ SnapGet
    \/ SnapGetResolved
    \/ SnapGetRejected

InitSnapshot == HistFresh /\ SnapInit /\ LiveQuiet /\ ExtractQuiet /\ SyncQuiet

SpecSnapshot == InitSnapshot /\ [][SnapNext]_vars

\* The live cache: calls start at any time and interleave at their awaits,
\* while the files of the vault change.
InFlightCalls == BagToSet(liveCalls)

LiveAdd == (\E path \in Range(LivePaths) : AddToLiveCache(path)) /\ UNCHANGED NotLive
LiveGet == (\E path \in Range(LivePaths) : GetDocument(path)) /\ UNCHANGED NotLive
LiveExtractResolved ==
    (\E call \in InFlightCalls : ExtractResolved(call)) /\ UNCHANGED NotLive
LiveExtractRejected ==
    (\E call \in InFlightCalls : ExtractRejected(call)) /\ UNCHANGED NotLive
LiveExtractThrew ==
    (\E call \in InFlightCalls : ExtractThrew(call)) /\ UNCHANGED NotLive
LiveGetReturn ==
    (\E call \in InFlightCalls : GetDocumentReturn(call)) /\ UNCHANGED NotLive
LiveRemove ==
    (\E path \in Range(LivePaths) : RemoveFromLiveCache(path)) /\ UNCHANGED NotLive
LiveVaultWrite == (\E path \in Range(LivePaths) : VaultWrite(path)) /\ UNCHANGED NotLive
LiveVaultDelete == (\E path \in Range(LivePaths) : VaultDelete(path)) /\ UNCHANGED NotLive

LiveNext ==
    \/ LiveAdd
    \/ LiveGet
    \/ LiveExtractResolved
    \/ LiveExtractRejected
    \/ LiveExtractThrew
    \/ LiveGetReturn
    \/ LiveRemove
    \/ LiveVaultWrite
    \/ LiveVaultDelete

InitLive == HistFresh /\ SnapInit /\ LiveInit /\ ExtractQuiet /\ SyncQuiet

SpecLive == InitLive /\ [][LiveNext]_vars

\* The change synchronizer: the vault emits events at any time, the listeners
\* run up to their awaits and the extractions they started resolve in any
\* order.
SyncCreate ==
    (\E path \in SyncPaths : OnCreate(path)) /\ UNCHANGED NotSync
SyncDelete ==
    (\E path \in SyncPaths : OnDelete(path)) /\ UNCHANGED NotSync
SyncModify ==
    (\E path \in SyncPaths : OnModify(path)) /\ UNCHANGED NotSync
SyncRename ==
    (\E oldPath \in SyncPaths, path \in SyncPaths : OnRename(oldPath, path))
        /\ UNCHANGED NotSync
SyncRenameFolder ==
    (\E oldPath \in FolderPaths, path \in FolderPaths : OnRenameFolder(oldPath, path))
        /\ UNCHANGED NotSync
SyncExtractResolved ==
    (\E call \in InFlightCalls : ExtractResolved(call)) /\ UNCHANGED NotLive
SyncExtractRejected ==
    (\E call \in InFlightCalls : ExtractRejected(call)) /\ UNCHANGED NotLive
SyncExtractThrew ==
    (\E call \in InFlightCalls : ExtractThrew(call)) /\ UNCHANGED NotLive
SyncAddToIndexResume ==
    (\E call \in InFlightCalls : AddToIndexResume(call)) /\ UNCHANGED NotSync

SyncNext ==
    \/ SyncCreate
    \/ SyncDelete
    \/ SyncModify
    \/ SyncRename
    \/ SyncRenameFolder
    \/ SyncExtractResolved
    \/ SyncExtractRejected
    \/ SyncExtractThrew
    \/ SyncAddToIndexResume

InitSync == HistFresh /\ SnapInit /\ ExtractQuiet /\ SyncInit

SpecSync == InitSync /\ [][SyncNext]_vars

\* One extraction: getAndMapIndexedDocument called with any path, the file in
\* the vault or not, with any text extractor, on any metadata.
InitExtract ==
    /\ HistFresh
    /\ SnapInit
    /\ documents = [p \in Paths |-> NoDoc]
    /\ liveCalls = EmptyBag
    /\ liveReturned = NoReturn
    /\ extractions = 0
    /\ liveStarted = 0
    /\ vaultChanges = 0
    /\ extractor \in Extractors
    /\ SyncQuiet
    /\ \E path \in ExtractPaths, metadata \in Metadatas :
          /\ files \in {<<>>, <<TFile(path, 1)>>}
          /\ mapCall = [IdleMapCall EXCEPT !.pc = "start", !.path = path,
                                           !.metadata = metadata]

ExtractNext ==
    \/ MapBegin
    \/ MapReadResolved
    \/ MapReadRejected

SpecExtract == InitExtract /\ [][ExtractNext]_vars

\* ------------------------------------------------- change synchronizer properties

Live(path) == [id |-> path, ghost |-> FALSE]

\* The events emitted for the file at path.
RECURSIVE EventsFor(_, _)
EventsFor(events, path) ==
    IF events = <<>> THEN <<>>
    ELSE (IF Head(events).isFile /\ path \in {Head(events).path, Head(events).oldPath}
          THEN <<Head(events)>> ELSE <<>>) \o EventsFor(Tail(events), path)

LastEvent(path) == EventsFor(emitted, path)[Len(EventsFor(emitted, path))]

\* Every handler has finished: no extraction, no addToIndex is in flight.
AllHandled == liveCalls = EmptyBag

\* The last two events emitted for path are create(path), then delete(path).
CreatedThenDeleted(path) ==
    LET events == EventsFor(emitted, path) IN
    /\ Len(events) >= 2
    /\ events[Len(events) - 1].type = "create"
    /\ events[Len(events)].type = "delete"

\* C11: for every path p, once create(p) and then delete(p) have been handled
\* and every handler has finished, the Index Engine holds no entry for p and
\* holds a ghost entry under the name of p.
C11_CreateThenDelete ==
    \A path \in SyncPaths :
        (AllHandled /\ CreatedThenDeleted(path)) =>
            /\ Count(searchIndex, Live(path)) = 0
            /\ BagIn(GhostEntry(Name(path)), searchIndex)

\* C12: for every path p, when the handling of modify(p) completes, the Index
\* Engine holds exactly one entry for p: no duplicate and no missing entry.
C12_ExactlyOneAfterModify ==
    [][\A call \in InFlightCalls :
        (call.op = "modify" /\ AddToIndexResume(call)) =>
            Count(searchIndex', Live(call.path)) = 1]_vars

\* The ghost entries of the engine.
Ghosts(engine) == {e \in BagToSet(engine) : e.ghost}

\* The extraction addToIndex starts for the file now at path.
Started(op, path, vault) ==
    InFlight(op, "read", path, FindFile(vault, path),
             vault[FindFile(vault, path)].mtime, FALSE)

C16_DeleteLastLeavesNoLiveEntry ==
    \A path \in SyncPaths :
        (/\ AllHandled
         /\ EventsFor(emitted, path) # <<>>
         /\ LastEvent(path).type = "delete") =>
            /\ ~Has(documents, path)
            /\ Count(searchIndex, Live(path)) = 0

CommentsOf(call) == SelectComments(call.metadata.sections)

\* Whether offset is inside one of the ranges.
Covered(ranges, offset) ==
    \E i \in 1..Len(ranges) : ranges[i].start <= offset /\ offset < ranges[i].end

RECURSIVE Outside(_, _, _)
\* The characters of str, from offset on, that no range covers, in order.
Outside(str, ranges, offset) ==
    IF offset >= Len(str) THEN <<>>
    ELSE (IF Covered(ranges, offset) THEN <<>> ELSE <<str[offset + 1]>>)
            \o Outside(str, ranges, offset + 1)

\* C14: for an excalidraw document whose metadata lists two comment ranges that
\* do not overlap, the content returned is the content read without the
\* characters of the two ranges: neither range is left and every character
\* outside them is kept, in order.
C14_CommentRangesRemoved ==
    (/\ mapCall.pc = "done"
     /\ mapCall.metadata # NoMetadata
     /\ mapCall.metadata.excalidraw
     /\ Len(CommentsOf(mapCall)) = 2) =>
        mapCall.content = Outside(mapCall.read, CommentsOf(mapCall), 0)

\* The call has passed the dispatch, for a file of the vault that is neither
\* plain text nor a canvas.
DispatchedBinary ==
    /\ mapCall.pc \in {"threw", "reading", "done", "rejected"}
    /\ files # <<>>
    /\ ~IsFilePlaintext(mapCall.path)
    /\ ~IsFileCanvas(mapCall.path)

Accepted == extractor # NoExtractor /\ CanFileBeExtracted(extractor, mapCall.path)

\* The built-in readers: getPdfText for a PDF, getImageText for an image, and
\* the 'Invalid file format' error for any other file.
BuiltIn(path) ==
    IF IsFilePDF(path) THEN "getPdfText"
    ELSE IF IsFileImage(path) THEN "getImageText"
    ELSE "throw"

\* C15 as stated: for a path that is neither plain text nor canvas, the text
\* extractor is used when it is registered and accepts the path; in every other
\* case, also that of a registered extractor that does not accept the path, the
\* built-in PDF and image readers are used for a PDF or an image, and the
\* extraction fails as unsupported for any other file.
C15_FallbackUnlessAccepted ==
    DispatchedBinary =>
        mapCall.reader = IF Accepted THEN "extractText" ELSE BuiltIn(mapCall.path)

\* C15, amended: the text extractor is used when it is registered and accepts
\* the path; a registered extractor that does not accept the path makes the
\* extraction fail as unsupported before any read, also for a PDF or an image;
\* the built-in readers are used only when no extractor is registered.
C15_BuiltInOnlyWithoutExtractor ==
    DispatchedBinary =>
        /\ Accepted => mapCall.reader = "extractText"
        /\ (extractor # NoExtractor /\ ~Accepted) =>
                mapCall.reader = "throw" /\ mapCall.pc = "threw"
        /\ extractor = NoExtractor => mapCall.reader = BuiltIn(mapCall.path)

\* The extraction of a PDF has thrown although the built-in reader could read
\* it: a text extractor is registered and does not accept PDFs.
C15_Witness ==
    /\ mapCall.pc = "threw"
    /\ mapCall.path = "p.pdf"
    /\ files # <<>>
    /\ extractor = TextExtractor({"png"})

\* ---------------------------------------------------------- live cache properties

\* A step in which the extraction of an addToLiveCache(path) call fails.
AddFails(call) ==
    /\ call.op = "add"
    /\ ExtractRejected(call) \/ ExtractThrew(call)

\* C9 as stated: when the extraction of addToLiveCache(path) fails, the call
\* does not raise and path is absent from the live cache after it, whatever
\* the cache held for path before.
C9_AbsentAfterFailure ==
    [][\A call \in InFlightCalls : AddFails(call) =>
            /\ ~liveReturned'.raised
            /\ ~Has(documents', call.path)]_vars

\* C9, amended: when the extraction of addToLiveCache(path) fails, the call
\* returns without raising and leaves the live cache as it is: path stays
\* absent if it was absent and keeps the document it held otherwise.
C9_UnchangedAfterFailure ==
    [][\A call \in InFlightCalls : AddFails(call) =>
            /\ liveReturned' = Returned("add", call.path, NoDoc, TRUE, TRUE)
            /\ ~liveReturned'.raised
            /\ documents' = documents]_vars

\* An addToLiveCache(path) has failed and returned while the cache holds a
\* document for path.
C9_Witness ==
    /\ liveReturned.op = "add"
    /\ liveReturned.failed
    /\ Has(documents, liveReturned.path)

\* A step of a getDocument call in flight.
GetStep(call) ==
    /\ call.op = "get"
    /\ \/ ExtractResolved(call)
       \/ ExtractRejected(call)
       \/ ExtractThrew(call)
       \/ GetDocumentReturn(call)

\* C10: no step of a getDocument(path) call changes the entry of another path;
\* on a hit the call returns the cached document at once, extracts nothing and
\* leaves the whole cache unchanged; on a miss it extracts path, once, and what
\* it stores is stored under path.
C10_OnlyRequestedPath ==
    [][/\ \A call \in InFlightCalls :
            GetStep(call) =>
                /\ \A q \in Paths : q # call.path => documents'[q] = documents[q]
                /\ extractions' = extractions
       /\ \A call \in InFlightCalls :
            (call.op = "get" /\ ExtractResolved(call)) =>
                Has(documents', call.path)
       /\ \A path \in Paths :
            (GetDocument(path) /\ Has(documents, path)) =>
                /\ documents' = documents
                /\ extractions' = extractions
                /\ liveCalls' = liveCalls
                /\ liveReturned' = Returned("get", path, documents[path], FALSE, FALSE)
       /\ \A path \in Paths :
            (GetDocument(path) /\ ~Has(documents, path)) =>
                /\ documents' = documents
                /\ extractions' = extractions + 1]_vars

\* A getDocument call has returned the document it extracted on a miss while
\* the cache holds a document for another path.
C10_Witness ==
    /\ liveReturned.op = "get"
    /\ liveReturned.extracted
    /\ ~liveReturned.failed
    /\ liveReturned.result # NoDoc
    /\ \E q \in Paths : q # liveReturned.path /\ Has(documents, q)

\* A step in which the extraction of call resolves and its document is stored
\* over the document the cache holds for the path.
StoresOver(call) == ExtractResolved(call) /\ Has(documents, call.path)

\* C17: last write by timestamp wins in the live cache: when an extraction
\* stores its document over the one the cache holds for the path, as when a call
\* that started before a change of the file finishes after a call that started
\* after it, the mtime of the cached document does not decrease.
C17_LastWriteByTimestampWins ==
    [][\A call \in InFlightCalls : StoresOver(call) =>
            documents'[call.path].mtime >= documents[call.path].mtime]_vars

\* C20: getDocument(path) never resolves to undefined, on a hit or on a miss,
\* whether the extraction of the miss succeeds or fails.
C20_GetDocumentNeverUndefined ==
    liveReturned.op = "get" => liveReturned.result # NoDoc

\* ------------------------------------------------------------ snapshot properties

IsRow(v) == v \notin {Undefined, Null}

\* C5: once a first save has completed, a getMinisearchCache whose read
\* resolves, at any point of a later save, returns a stored snapshot row, never
\* a missing one.
C5_NeverMissingRow ==
    [][(GetCacheResolved /\ savesCompleted >= 1) => IsRow(cacheResult'.value)]_vars

\* C6: the snapshot table never holds more than one row, also when saves
\* overlap between clear and add.
C6_AtMostOneRow == Len(minisearch) <= 1

\* C7: a getMinisearchCache that finds the table without a row, or whose read
\* of the table fails, returns null and shows the Notice, and does not raise.
C7_NullAndNoticeWhenMissing ==
    [][((GetCacheResolved /\ minisearch = <<>>) \/ GetCacheRejected) =>
            /\ cacheResult'.value = Null
            /\ cacheResult'.notice
            /\ ~cacheResult'.raised]_vars

\* C8: a getMinisearchCache called after a save has completed, with no step of
\* any save since, returns the paths and the serialized index of that save.
C8_RoundTrip ==
    [][(GetCacheResolved /\ getAfter # NoSave /\ getAfter = lastSaved
            /\ NoWriteInFlight) =>
            /\ IsRow(cacheResult'.value)
            /\ cacheResult'.value.paths = getAfter[1]
            /\ cacheResult'.value.data = getAfter[2]]_vars

\* ------------------------------------------------------ search history properties

NoDuplicateQuery(rows) ==
    \A i, j \in 1..Len(rows) : rows[i].query = rows[j].query => i = j

\* The position of the latest recording of q in rec (0: never recorded).
LastIndex(rec, q) ==
    LET at == {n \in 1..Len(rec) : rec[n] = q}
    IN IF at = {} THEN 0 ELSE CHOOSE n \in at : \A m \in at : m <= n

MostRecentFirst(res, rec) ==
    /\ rec # <<>> => res # <<>> /\ res[1] = rec[Len(rec)]
    /\ \A i \in 1..Len(res) : LastIndex(rec, res[i]) > 0
    /\ \A i, j \in 1..Len(res) :
          i < j => LastIndex(rec, res[i]) > LastIndex(rec, res[j])

\* C1: with calls that never overlap, whenever no addToSearchHistory call is in
\* flight the persisted history holds at most 10 rows and no two rows have the
\* same query, whatever queries (empty or not, repeated or not) were recorded.
C1_HistoryBoundedUnique ==
    NoAddInFlight =>
        /\ Len(searchHistory) <= HistoryCap
        /\ NoDuplicateQuery(searchHistory)

\* Twelve recordings of which one repeats a stored query, then an empty one,
\* have completed and the table is full.
C1_Witness ==
    /\ NoAddInFlight
    /\ Len(searchHistory) = HistoryCap
    /\ recorded = OldQueries \o <<"e", "k">>
    /\ lastQuery = ""

\* C2: with calls that never overlap, a getSearchHistory that reads the table
\* when every call has completed and the latest one was made with a non-empty
\* query returns only recorded queries, the most recently recorded one first,
\* and each query before every query whose latest recording was earlier.
C2_MostRecentFirst ==
    [][(GetResumeToArray /\ NoAddInFlight /\ lastQuery # "")
            => MostRecentFirst(histResult', recorded)]_vars

\* "e" was recorded again and then "k", on a full history: the list returned
\* has "e" at the place of its latest recording and has lost "a".
C2_Witness ==
    /\ getCall = "done"
    /\ NoAddInFlight
    /\ recorded = OldQueries \o <<"e", "k">>
    /\ histResult = <<"k", "e", "j", "i", "h", "g", "f", "d", "c", "b">>

StoredQueries(rows) == Range(QueriesOf(rows))

\* C19: with calls that never overlap, a call made with a non-empty query that
\* is not stored, on a history of 10 rows, writes back the query and all stored
\* queries but one, and the one it drops is the stored query whose latest
\* recording is the oldest; the table then holds exactly the queries written
\* back.
C19_EvictsLeastRecent ==
    [][\A c \in Slots :
        /\ (/\ AddResumeToArray(c)
            /\ Len(searchHistory) = HistoryCap
            /\ addCalls[c].query \notin StoredQueries(searchHistory)) =>
                LET stored == StoredQueries(searchHistory)
                    kept == StoredQueries(addCalls'[c].history)
                IN /\ addCalls[c].query \in kept
                   /\ Cardinality(kept) = HistoryCap
                   /\ Cardinality(stored \ kept) = 1
                   /\ \A x \in stored \ kept : \A y \in stored \ {x} :
                         LastIndex(recorded, x) < LastIndex(recorded, y)
        /\ AddResumeBulkAdd(c) =>
                StoredQueries(searchHistory') = StoredQueries(addCalls[c].history)]_vars

\* "k" then "l" were recorded on the full history a..j: "a" and then "b" were
\* dropped, everything recorded later is stored.
C19_Witness ==
    /\ NoAddInFlight
    /\ recorded = OldQueries \o <<"k", "l">>
    /\ QueriesOf(searchHistory) = <<"c", "d", "e", "f", "g", "h", "i", "j", "k", "l">>

\* C3: once all overlapping addToSearchHistory calls have completed, none of
\* them rejected, the persisted history holds at most 10 rows and no two rows
\* have the same query.
C3_AtomicRewrite ==
    (\A c \in Slots : addCalls[c].pc = "idle") =>
        /\ Len(searchHistory) <= HistoryCap
        /\ NoDuplicateQuery(searchHistory)

\* C4: the list getSearchHistory returns starts with the empty string exactly
\* when the latest addToSearchHistory call was made with the empty query.
C4_EmptyFirstIffLastEmpty ==
    [][GetResumeToArray =>
            ((histResult' # <<>> /\ histResult'[1] = "") <=> lastQuery = "")]_vars

\* A getSearchHistory returned a list starting with the empty string, and a
\* non-empty query recorded since then has cleared the flag.
C4_Witness ==
    /\ getCall = "done"
    /\ histResult # <<>> /\ histResult[1] = ""
    /\ lastQuery \notin {"", "-"}
    /\ ~nextQueryIsEmpty

====
